---- MODULE Spec2Model ----
(***************************************************************************)
(* Pedersen-style vector commitment (src/src/lib.rs) and the accumulator   *)
(* built on it (src/src/accumulator.rs).                                   *)
(*                                                                         *)
(* G1 is a cyclic group of prime order |Fr|.  A point is modelled by its   *)
(* discrete logarithm, so the group is Z_FrOrder under addition and a      *)
(* scalar multiple p * s is multiplication modulo FrOrder.  The generator  *)
(* table and the field are scaled down; every relation the code relies on  *)
(* (prime order, non-identity generators) is kept.                         *)
(*                                                                         *)
(* Rust slices are 0-based, TLA+ sequences 1-based: At(s, i) reads s[i].   *)
(* An index past the end of a slice or of POINTS is a Rust panic, which    *)
(* is modelled as the result kind "Panic".                                 *)
(***************************************************************************)
EXTENDS Integers, Sequences, FiniteSets, TLC

\* Size of the generator table (20 in lib.rs:16), scaled down.
NUM_POINTS == 4

BLINDING_INDEX == 0

\* Order of the scalar field Fr and of the group G1 (a prime), scaled down.
FrOrder == 3

Scalar == 0..(FrOrder - 1)
Group == 0..(FrOrder - 1)

\* G1Affine::default() / GroupProjective::default(): the identity.
Identity == 0

FAdd(a, b) == (a + b) % FrOrder
FSub(a, b) == (a + FrOrder - b) % FrOrder
FMul(a, b) == (a * b) % FrOrder
FNeg(a) == (FrOrder - a) % FrOrder

GAdd(p, q) == (p + q) % FrOrder
GSub(p, q) == (p + FrOrder - q) % FrOrder
GMul(p, s) == (p * s) % FrOrder

\* Hash-to-curve of the i-th line of the trusted setup: a non-identity point.
hash_message(i) == (i % (FrOrder - 1)) + 1

POINTS == [i \in 0..(NUM_POINTS - 1) |-> hash_message(i)]

At(s, i) == s[i + 1]

Min(a, b) == IF a < b THEN a ELSE b

\* anyhow::Result and the panic of an out-of-range index.
OkR(x) == [kind |-> "Ok", err |-> "", val |-> x]
ErrR(m) == [kind |-> "Err", err |-> m, val |-> 0]
PanicR == [kind |-> "Panic", err |-> "index out of bounds", val |-> 0]

ErrLength == "POINTS must have 1 + v.len() entries"
ErrIndex == "Index out of bounds"
ErrEmpty == "Empty indices"
ErrDuplicate == "Duplicate indices not allowed"
ErrMatch == "values and indices must match"
ErrSorted == "indices must be sorted and unique"
ErrMember == "v is in the root set; cannot prove non-membership"

\* POINTS[1..].iter().zip(v).map(|(p, v_i)| *p * v_i).fold(default, +):
\* the zip stops at the shorter of the two.
RECURSIVE ZipFold(_, _)
ZipFold(v, n) ==
    IF n = 0 THEN Identity
    ELSE GAdd(ZipFold(v, n - 1), GMul(POINTS[n], v[n]))

CommitNoLengthCheck(v, r) ==
    OkR(GAdd(GMul(POINTS[BLINDING_INDEX], r),
             ZipFold(v, Min(NUM_POINTS - 1, Len(v)))))

commit(v, r) ==
    IF Len(v) # NUM_POINTS - 1 THEN ErrR(ErrLength)
    ELSE LET blind == GMul(POINTS[BLINDING_INDEX], r)
             h == ZipFold(v, Min(NUM_POINTS - 1, Len(v)))
         IN OkR(GAdd(blind, h))

\* POINTS[1..].iter().enumerate().filter(|(i, _)| i not in skip)
\*     .map(|(i, p)| *p * v[i]).sum(), over the first n entries of POINTS[1..].
RECURSIVE SumKept(_, _, _)
SumKept(v, skip, n) ==
    IF n = 0 THEN Identity
    ELSE IF (n - 1) \in skip THEN SumKept(v, skip, n - 1)
    ELSE GAdd(SumKept(v, skip, n - 1), GMul(POINTS[n], At(v, n - 1)))

\* v[i] is read for every kept i in 0..NUM_POINTS-2: a panic when one is
\* past the end of v.
ReadsPastEnd(v, skip) ==
    \E i \in 0..(NUM_POINTS - 2) : i \notin skip /\ i >= Len(v)

OpenKeepsAll(v, r, j) ==
    IF j >= Len(v) THEN ErrR(ErrIndex)
    ELSE IF ReadsPastEnd(v, {}) THEN PanicR
    ELSE OkR([value |-> At(v, j), blinding |-> r,
              witness |-> GAdd(SumKept(v, {}, NUM_POINTS - 1),
                               GMul(POINTS[BLINDING_INDEX], r))])

open(v, r, j) ==
    IF j >= Len(v) THEN ErrR(ErrIndex)
    ELSE IF ReadsPastEnd(v, {j}) THEN PanicR
    ELSE LET blind == GMul(POINTS[BLINDING_INDEX], r)
             witness == GAdd(SumKept(v, {j}, NUM_POINTS - 1), blind)
         IN OkR([value |-> At(v, j), blinding |-> r, witness |-> witness])

CheckIgnoresValue(c, v_j, witness, h_j) == c = GAdd(witness, h_j)

check(c, v_j, witness, h_j) == c = GAdd(witness, GMul(h_j, v_j))

RECURSIVE InsertSorted(_, _)
InsertSorted(s, x) ==
    IF s = <<>> THEN <<x>>
    ELSE IF x <= Head(s) THEN <<x>> \o s
    ELSE <<Head(s)>> \o InsertSorted(Tail(s), x)

RECURSIVE sort_unstable(_)
sort_unstable(s) ==
    IF s = <<>> THEN <<>>
    ELSE InsertSorted(sort_unstable(Tail(s)), Head(s))

Range(s) == {s[k] : k \in 1..Len(s)}

BatchOpenInputOrder(v, r, indices) ==
    IF indices = <<>> THEN ErrR(ErrEmpty)
    ELSE LET sorted_indices == sort_unstable(indices)
         IN IF \E k \in 1..(Len(sorted_indices) - 1) :
                   sorted_indices[k] = sorted_indices[k + 1]
            THEN ErrR(ErrDuplicate)
            ELSE IF \E k \in 1..Len(sorted_indices) : sorted_indices[k] >= Len(v)
            THEN ErrR(ErrIndex)
            ELSE IF ReadsPastEnd(v, Range(sorted_indices)) THEN PanicR
            ELSE OkR([values |-> [k \in 1..Len(indices) |-> At(v, indices[k])],
                      blinding |-> r,
                      witness |-> GAdd(SumKept(v, Range(sorted_indices), NUM_POINTS - 1),
                                       GMul(POINTS[BLINDING_INDEX], r))])

batch_open(v, r, indices) ==
    IF indices = <<>> THEN ErrR(ErrEmpty)
    ELSE LET sorted_indices == sort_unstable(indices)
         IN IF \E k \in 1..(Len(sorted_indices) - 1) :
                   sorted_indices[k] = sorted_indices[k + 1]
            THEN ErrR(ErrDuplicate)
            ELSE IF \E k \in 1..Len(sorted_indices) : sorted_indices[k] >= Len(v)
            THEN ErrR(ErrIndex)
            ELSE IF ReadsPastEnd(v, Range(sorted_indices)) THEN PanicR
            ELSE LET blind == GMul(POINTS[BLINDING_INDEX], r)
                     witness == GAdd(SumKept(v, Range(sorted_indices), NUM_POINTS - 1),
                                     blind)
                     values == [k \in 1..Len(sorted_indices) |->
                                   At(v, sorted_indices[k])]
                 IN OkR([values |-> values, blinding |-> r, witness |-> witness])

\* values.iter().zip(indices).fold(witness, |acc, (v_j, j)| acc + POINTS[j + 1] * v_j)
RECURSIVE BatchFold(_, _, _, _)
BatchFold(values, indices, witness, n) ==
    IF n = 0 THEN witness
    ELSE GAdd(BatchFold(values, indices, witness, n - 1),
              GMul(POINTS[indices[n] + 1], values[n]))

BatchCheckAcceptsUnsorted(c, values, witness, indices) ==
    IF Len(values) # Len(indices) THEN ErrR(ErrMatch)
    ELSE IF \E k \in 1..Len(indices) : indices[k] + 1 >= NUM_POINTS THEN PanicR
    ELSE OkR(c = BatchFold(values, indices, witness, Len(values)))

batch_check(c, values, witness, indices) ==
    IF Len(values) # Len(indices) THEN ErrR(ErrMatch)
    ELSE IF \E k \in 1..(Len(indices) - 1) : indices[k] >= indices[k + 1]
    THEN ErrR(ErrSorted)
    ELSE IF \E k \in 1..Len(indices) : indices[k] + 1 >= NUM_POINTS THEN PanicR
    ELSE LET sum == BatchFold(values, indices, witness, Len(values))
         IN OkR(c = sum)

\* DensePolynomial::from_coefficients_vec: trailing zero coefficients are
\* dropped, so the zero polynomial has no coefficients.
RECURSIVE from_coefficients_vec(_)
from_coefficients_vec(coeffs) ==
    IF coeffs = <<>> THEN <<>>
    ELSE IF coeffs[Len(coeffs)] = 0
    THEN from_coefficients_vec(SubSeq(coeffs, 1, Len(coeffs) - 1))
    ELSE coeffs

\* Coefficient of x^k in a * b: the sum of a_i * b_(k-i) for i in 0..n-1.
RECURSIVE MulCoeff(_, _, _, _)
MulCoeff(a, b, k, n) ==
    IF n = 0 THEN 0
    ELSE LET i == n - 1
             term == IF i < Len(a) /\ k - i >= 0 /\ k - i < Len(b)
                     THEN FMul(At(a, i), At(b, k - i))
                     ELSE 0
         IN FAdd(MulCoeff(a, b, k, n - 1), term)

\* &a * &b on dense polynomials.
PolyMul(a, b) ==
    IF a = <<>> \/ b = <<>> THEN <<>>
    ELSE from_coefficients_vec(
             [k \in 1..(Len(a) + Len(b) - 1) |-> MulCoeff(a, b, k - 1, Len(a))])

\* The product of (x - root) over roots, starting from the constant 1.
poly_from_roots(roots) ==
    LET one == 1
        MulAll[n \in 0..Len(roots)] ==
            IF n = 0 THEN from_coefficients_vec(<<one>>)
            ELSE LET neg_root == FNeg(roots[n])
                     linear == from_coefficients_vec(<<neg_root, one>>)
                 IN PolyMul(MulAll[n - 1], linear)
    IN MulAll[Len(roots)]

\* Horner evaluation of the coefficients from the k-th on (constant term first).
RECURSIVE Horner(_, _, _)
Horner(coeffs, x, k) ==
    IF k > Len(coeffs) THEN 0
    ELSE FAdd(coeffs[k], FMul(x, Horner(coeffs, x, k + 1)))

evaluate_poly(coeffs, x) == Horner(from_coefficients_vec(coeffs), x, 1)

\* SHA-256 of the two compressed points, reduced modulo the order of Fr: a
\* fixed function of the two points.
hash_points_to_fr(p1, p2) == (p1 * p1 + 2 * p2 + p1 * p2 + 1) % FrOrder

InsertNoChallenge(roots, a_prev, r) ==
    LET p_i == commit(poly_from_roots(roots), r)
    IN IF p_i.kind # "Ok" THEN p_i
       ELSE OkR([Accumulator |-> GAdd(a_prev, p_i.val), Commitment |-> p_i.val])

insert(roots, a_prev, r) ==
    LET coeffs == poly_from_roots(roots)
        p_i == commit(coeffs, r)
    IN IF p_i.kind # "Ok" THEN p_i
       ELSE LET h == hash_points_to_fr(a_prev, p_i.val)
                next == GAdd(GMul(a_prev, h), p_i.val)
            IN OkR([Accumulator |-> next, Commitment |-> p_i.val])

CheckNonMembershipCommitFirst(roots, v, r, s_prev) ==
    LET coeffs == poly_from_roots(roots)
        alpha == evaluate_poly(coeffs, v)
        p_i == commit(coeffs, r)
    IN IF p_i.kind # "Ok" THEN p_i
       ELSE IF alpha = 0 THEN ErrR(ErrMember)
       ELSE LET p_i_prime == GSub(p_i.val, GMul(POINTS[0], alpha))
                h_prime == hash_points_to_fr(s_prev, p_i_prime)
            IN OkR([Accumulator |-> GAdd(GMul(s_prev, h_prime), p_i_prime),
                    Commitment |-> p_i.val])

CheckNonMembershipReturnsAdjusted(roots, v, r, s_prev) ==
    LET coeffs == poly_from_roots(roots)
        alpha == evaluate_poly(coeffs, v)
    IN IF alpha = 0 THEN ErrR(ErrMember)
       ELSE LET p_i == commit(coeffs, r)
            IN IF p_i.kind # "Ok" THEN p_i
               ELSE LET p_i_prime == GSub(p_i.val, GMul(POINTS[0], alpha))
                        h_prime == hash_points_to_fr(s_prev, p_i_prime)
                    IN OkR([Accumulator |-> GAdd(GMul(s_prev, h_prime), p_i_prime),
                            Commitment |-> p_i_prime])

check_non_membership(roots, v, r, s_prev) ==
    LET coeffs == poly_from_roots(roots)
        alpha == evaluate_poly(coeffs, v)
    IN IF alpha = 0 THEN ErrR(ErrMember)
       ELSE LET p_i == commit(coeffs, r)
            IN IF p_i.kind # "Ok" THEN p_i
               ELSE LET p_i_prime == GSub(p_i.val, GMul(POINTS[0], alpha))
                        h_prime == hash_points_to_fr(s_prev, p_i_prime)
                        next == GAdd(GMul(s_prev, h_prime), p_i_prime)
                    IN OkR([Accumulator |-> next, Commitment |-> p_i.val])

VARIABLES v, r, com, call, acc

vars == <<v, r, com, call, acc>>

Vectors == UNION {[1..n -> Scalar] : n \in 0..NUM_POINTS}

Init ==
    /\ v \in Vectors
    /\ r \in Scalar
    /\ com = [kind |-> "None", err |-> "", val |-> 0]
    /\ call = [op |-> "none"]
    /\ acc = Identity

\* The committer holds (v, r) and publishes commit(&v, r).
Commit ==
    /\ call.op = "none"
    /\ com' = commit(v, r)
    /\ call' = [op |-> "commit"]
    /\ UNCHANGED <<v, r, acc>>

\* open(&v, r, j) for any j, in and out of bounds.
Open ==
    /\ call.op = "commit"
    /\ \E j \in 0..NUM_POINTS :
          call' = [op |-> "open", j |-> j, res |-> open(v, r, j)]
    /\ UNCHANGED <<v, r, com, acc>>

\* The verifier's check of the last opening against commit(v, r); the opened
\* value is offset by d (d = 0: the value as opened).
Check ==
    /\ call.op = "open"
    /\ call.res.kind = "Ok"
    /\ com.kind = "Ok"
    /\ \E d \in Scalar :
          LET c == com.val
              o == call.res.val
              v_j == FAdd(o.value, d)
              h_j == POINTS[call.j + 1]
          IN call' = [op |-> "check", j |-> call.j, d |-> d, c |-> c,
                      v_j |-> v_j, witness |-> o.witness, h_j |-> h_j,
                      res |-> check(c, v_j, o.witness, h_j)]
    /\ UNCHANGED <<v, r, com, acc>>

\* Index collections handed to batch_open: any order, with repeats and with
\* indices past the end of v.
IdxSeqs == UNION {[1..n -> 0..(NUM_POINTS - 1)] : n \in 0..(NUM_POINTS - 1)}

BatchOpen ==
    /\ call.op = "commit"
    /\ \E indices \in IdxSeqs :
          call' = [op |-> "batch_open", indices |-> indices,
                   res |-> batch_open(v, r, indices)]
    /\ UNCHANGED <<v, r, com, acc>>

\* values offset by d at position k (k = 0: untouched).
Tamper(values, k, d) ==
    [p \in 1..Len(values) |-> IF p = k THEN FAdd(values[p], d) ELSE values[p]]

\* The opened values re-aligned from ascending index order to the order of
\* indices (a caller that did not canonicalise its indices).
Realign(values, indices) ==
    LET sorted == sort_unstable(indices)
    IN [k \in 1..Len(indices) |->
           values[CHOOSE p \in 1..Len(sorted) : sorted[p] = indices[k]]]

\* What a verifier may hand to batch_check after batch_open(v, r, indices):
\* the canonical call, the caller's own order (values as returned, or
\* re-aligned), one index too few, a repeated index, an index past POINTS.
CheckInputs(indices, values) ==
    LET sorted == sort_unstable(indices)
        n == Len(sorted)
    IN {<<sorted, values>>, <<indices, values>>,
        <<indices, Realign(values, indices)>>,
        <<Tail(sorted), values>>,
        <<sorted \o <<sorted[n]>>, values \o <<values[n]>> >>,
        <<[sorted EXCEPT ![n] = NUM_POINTS - 1], values>>,
        <<[sorted EXCEPT ![n] = NUM_POINTS], values>>}

BatchCheck ==
    /\ call.op = "batch_open"
    /\ call.res.kind = "Ok"
    /\ com.kind = "Ok"
    /\ \E inp \in CheckInputs(call.indices, call.res.val.values) :
       \E k \in 0..Len(inp[2]) :
       \E d \in Scalar :
          /\ (k = 0) <=> (d = 0)
          /\ LET c == com.val
                 values == Tamper(inp[2], k, d)
                 witness == call.res.val.witness
             IN call' = [op |-> "batch_check", opened |-> call.indices,
                         opening |-> call.res.val, k |-> k, d |-> d, c |-> c, values |-> values,
                         witness |-> witness, indices |-> inp[1],
                         res |-> batch_check(c, values, witness, inp[1])]
    /\ UNCHANGED <<v, r, com, acc>>

Next == Commit \/ Open \/ Check \/ BatchOpen \/ BatchCheck

Spec == Init /\ [][Next]_vars

\* The accumulator keeps no state of its own: the caller supplies the previous
\* value (any group element, commonly the identity) and receives the next.
AccInit ==
    /\ v = <<>>
    /\ r = 0
    /\ com = [kind |-> "None", err |-> "", val |-> 0]
    /\ call = [op |-> "none"]
    /\ acc \in Group

RootSeqs == UNION {[1..n -> Scalar] : n \in 0..NUM_POINTS}

Folded(res, previous) == IF res.kind = "Ok" THEN res.val.Accumulator ELSE previous

Insert ==
    /\ call.op = "none"
    /\ \E roots \in RootSeqs, blinding \in Scalar :
          LET res == insert(roots, acc, blinding)
          IN /\ call' = [op |-> "insert", roots |-> roots, previous |-> acc,
                         blinding |-> blinding, res |-> res]
             /\ acc' = Folded(res, acc)
    /\ UNCHANGED <<v, r, com>>

CheckNonMembership ==
    /\ call.op = "none"
    /\ \E roots \in RootSeqs, candidate \in Scalar, blinding \in Scalar :
          LET res == check_non_membership(roots, candidate, blinding, acc)
          IN /\ call' = [op |-> "check_non_membership", roots |-> roots,
                         candidate |-> candidate, previous |-> acc,
                         blinding |-> blinding, res |-> res]
             /\ acc' = Folded(res, acc)
    /\ UNCHANGED <<v, r, com>>

AccNext == Insert \/ CheckNonMembership

AccSpec == AccInit /\ [][AccNext]_vars

(***************************************************************************)
(* The claims.  The values they name are written out here from the         *)
(* specification's formulas, independently of the operators above.         *)
(***************************************************************************)

\* blinding * generators[0] + the sum of vals[i] * generators[i + 1].
RECURSIVE LinComb(_, _)
LinComb(vals, n) ==
    IF n = 0 THEN Identity
    ELSE GAdd(LinComb(vals, n - 1), GMul(POINTS[n], vals[n]))

Pedersen(vals, blinding) ==
    GAdd(GMul(POINTS[0], blinding), LinComb(vals, Len(vals)))

NoRepeat(s) == \A a, b \in 1..Len(s) : a # b => s[a] # s[b]

StrictlyIncreasing(s) == \A k \in 1..(Len(s) - 1) : s[k] < s[k + 1]

\* The ascending arrangement of a duplicate-free index collection.
Ascending(s) ==
    CHOOSE t \in [1..Len(s) -> Range(s)] : Range(t) = Range(s) /\ StrictlyIncreasing(t)

\* Coefficients, constant term first, of the product of (x - root) over the
\* first n roots, by Vieta's recurrence.
RECURSIVE RootsCoeffs(_, _)
RootsCoeffs(roots, n) ==
    IF n = 0 THEN <<1>>
    ELSE LET prev == RootsCoeffs(roots, n - 1)
         IN [k \in 1..(n + 1) |->
                FSub(IF k > 1 THEN prev[k - 1] ELSE 0,
                     IF k <= n THEN FMul(roots[n], prev[k]) ELSE 0)]

\* The product of (x - root) over the first n roots, at x.
RECURSIVE RootsProduct(_, _, _)
RootsProduct(roots, x, n) ==
    IF n = 0 THEN 1
    ELSE FMul(RootsProduct(roots, x, n - 1), FSub(x, roots[n]))

\* C1: for a value vector of length N-1 and an index j in 0..N-2, open
\* returns exactly (v[j], r, commit(v, r) - generators[j+1] * v[j]), and check
\* of the commitment against that opening with generators[j+1] is true.
C1_SingleRoundTrip ==
    /\ (call.op = "open" /\ Len(v) = NUM_POINTS - 1 /\ call.j <= NUM_POINTS - 2)
          => /\ call.res.kind = "Ok"
             /\ call.res.val.value = At(v, call.j)
             /\ call.res.val.blinding = r
             /\ call.res.val.witness =
                    GSub(Pedersen(v, r), GMul(POINTS[call.j + 1], At(v, call.j)))
    /\ (call.op = "check" /\ call.d = 0) => call.res = TRUE

C1_Witness ==
    /\ call.op = "check"
    /\ call.d = 0
    /\ call.j = NUM_POINTS - 2
    /\ call.v_j # 0
    /\ call.res = TRUE

\* The index collection is non-empty, duplicate-free and within 0..N-2.
ValidIndices(s) ==
    /\ s # <<>>
    /\ NoRepeat(s)
    /\ \A k \in 1..Len(s) : s[k] <= NUM_POINTS - 2

\* C2: for a value vector of length N-1 and a non-empty, duplicate-free,
\* in-bounds index collection in any order, batch_open returns the values in
\* ascending index order, and batch_check of the commitment against those
\* values, that witness and the ascending indices is Ok(true).
C2_BatchRoundTrip ==
    /\ (call.op = "batch_open" /\ Len(v) = NUM_POINTS - 1 /\ ValidIndices(call.indices))
          => /\ call.res.kind = "Ok"
             /\ call.res.val.values =
                    [k \in 1..Len(call.indices) |-> At(v, Ascending(call.indices)[k])]
             /\ call.res.val.blinding = r
    /\ (/\ call.op = "batch_check"
        /\ call.values = call.opening.values
        /\ call.indices = Ascending(call.opened))
          => call.res = OkR(TRUE)

C2_Witness ==
    /\ call.op = "batch_check"
    /\ Len(call.opened) = NUM_POINTS - 1
    /\ ~StrictlyIncreasing(call.opened)
    /\ call.values = call.opening.values
    /\ call.indices = Ascending(call.opened)
    /\ \E a, b \in 1..Len(call.values) : call.values[a] # call.values[b]
    /\ call.res = OkR(TRUE)

\* C3: from a valid opening, one opened value offset by a nonzero scalar
\* makes check false, and makes batch_check (on the ascending indices)
\* Ok(false).
C3_TamperDetected ==
    /\ (call.op = "check" /\ call.d # 0) => call.res = FALSE
    /\ (/\ call.op = "batch_check"
        /\ call.k # 0
        /\ call.d # 0
        /\ call.indices = Ascending(call.opened)
        /\ call.values = [call.opening.values EXCEPT ![call.k] = FAdd(@, call.d)])
          => call.res = OkR(FALSE)

C3_Witness ==
    /\ call.op = "batch_check"
    /\ call.k = Len(call.values)
    /\ call.d = FrOrder - 1
    /\ Len(call.opened) >= 2
    /\ call.indices = Ascending(call.opened)
    /\ call.values = [call.opening.values EXCEPT ![call.k] = FAdd(@, call.d)]
    /\ call.res = OkR(FALSE)

\* C4: when the candidate occurs in the roots, whatever their number,
\* check_non_membership fails with the candidate-is-member error, never with
\* the length error.
C4_MemberRejected ==
    (call.op = "check_non_membership" /\ call.candidate \in Range(call.roots))
       => call.res = ErrR(ErrMember)

C4_Witness ==
    /\ call.op = "check_non_membership"
    /\ call.candidate \in Range(call.roots)
    /\ Len(call.roots) = NUM_POINTS
    /\ ~NoRepeat(call.roots)
    /\ call.res = ErrR(ErrMember)

\* C5: for any roots and a candidate that is none of them,
\* check_non_membership succeeds.
C5_NonMemberAccepted ==
    (call.op = "check_non_membership" /\ call.candidate \notin Range(call.roots))
       => call.res.kind = "Ok"

\* C6: open, batch_open and batch_check return a result or an error on every
\* input, never abort; batch_check's errors are the length mismatch and the
\* indices not strictly increasing.
C6_NoAbort ==
    /\ call.op \in {"open", "batch_open", "batch_check"}
          => call.res.kind \in {"Ok", "Err"}
    /\ (call.op = "batch_check" /\ call.res.kind = "Err")
          => \/ (call.res.err = ErrMatch /\ Len(call.values) # Len(call.indices))
             \/ (call.res.err = ErrSorted /\ ~StrictlyIncreasing(call.indices))

C8_Commit ==
    call.op # "none" =>
       IF Len(v) = NUM_POINTS - 1
       THEN com = OkR(Pedersen(v, r))
       ELSE com = ErrR(ErrLength)

C8_Witness ==
    /\ call.op = "commit"
    /\ Len(v) = NUM_POINTS
    /\ v[NUM_POINTS] # 0
    /\ com = ErrR(ErrLength)

\* C9: batch_open fails on an empty index collection, a repeated index or an
\* index >= values.length; batch_check fails whenever its indices are not
\* strictly increasing, also when values and witness would verify.
C9_IndexValidation ==
    /\ (/\ call.op = "batch_open"
        /\ \/ call.indices = <<>>
           \/ ~NoRepeat(call.indices)
           \/ \E k \in 1..Len(call.indices) : call.indices[k] >= Len(v))
          => call.res.kind = "Err"
    /\ (call.op = "batch_check" /\ ~StrictlyIncreasing(call.indices))
          => call.res.kind = "Err"

C9_Witness ==
    /\ call.op = "batch_check"
    /\ ~StrictlyIncreasing(call.indices)
    /\ NoRepeat(call.indices)
    /\ Len(call.values) = Len(call.indices)
    /\ call.c = GAdd(call.witness,
                     LinComb([i \in 1..(NUM_POINTS - 1) |->
                                 IF \E k \in 1..Len(call.indices) : call.indices[k] = i - 1
                                 THEN call.values[CHOOSE k \in 1..Len(call.indices) :
                                                      call.indices[k] = i - 1]
                                 ELSE 0],
                             NUM_POINTS - 1))
    /\ call.res = ErrR(ErrSorted)

\* C10: for N-2 roots and a candidate that is none of them, with alpha the
\* product of (candidate - root), check_non_membership's Accumulator is
\* insert's with the blinding r - alpha, and its Commitment is insert's with
\* the blinding r.
C10_ShiftedInsert ==
    (/\ call.op = "check_non_membership"
     /\ Len(call.roots) = NUM_POINTS - 2
     /\ call.candidate \notin Range(call.roots))
       => LET alpha == RootsProduct(call.roots, call.candidate, Len(call.roots))
              shifted == insert(call.roots, call.previous, FSub(call.blinding, alpha))
              plain == insert(call.roots, call.previous, call.blinding)
          IN /\ call.res.kind = "Ok"
             /\ shifted.kind = "Ok"
             /\ plain.kind = "Ok"
             /\ call.res.val.Accumulator = shifted.val.Accumulator
             /\ call.res.val.Commitment = plain.val.Commitment

C10_Witness ==
    /\ call.op = "check_non_membership"
    /\ Len(call.roots) = NUM_POINTS - 2
    /\ call.candidate \notin Range(call.roots)
    /\ call.previous # Identity
    /\ call.res.kind = "Ok"
    /\ call.res.val.Accumulator #
           insert(call.roots, call.previous, call.blinding).val.Accumulator

====
